---- MODULE Spec2Model ----
(***************************************************************************)
(* Model of object_detection.py: the URL normaliser get_url, the           *)
(* ImageLabeler (fetch + Google Vision label detection) and the DfLabeler  *)
(* pipeline (get_labels_from_df, store_labels, update_data_df,             *)
(* get_label_counts).                                                      *)
(*                                                                         *)
(* Python values are modelled as follows.                                  *)
(*   str            a tuple of one-character strings (get_url), or a TLA+  *)
(*                  string (label descriptions, dict keys)                 *)
(*   cell / value   [type, s, f]: type "str" carries s, type "float"       *)
(*                  carries f (a score, in tenths), type "nan" is NaN      *)
(*   list           a sequence                                             *)
(*   dict           a sequence of [k, v] pairs in insertion order          *)
(*   float scores   integers in tenths (0..10 stands for 0.0..1.0)         *)
(*   cost           integer tenths of a dollar                             *)
(***************************************************************************)
EXTENDS Integers, Sequences, FiniteSets, TLC

VARIABLES
    data_df,    \* DfLabeler.data_df: the rows read from the csv
    urls,       \* DfLabeler.urls
    labels,     \* DfLabeler.labels
    df,         \* DfLabeler.df: the accumulated flattened rows
    out_csv,    \* the file written by update_data_df
    words_csv,  \* the file written by get_label_counts
    cost,       \* the cost figure of the last logged message
    calls,      \* history: external calls made by the last get_labels_from_df
    outcomes,   \* history: what the network and the service did in that run
    passed,     \* history: every list passed to store_labels so far
    lastop,     \* history: the last operation that ran
    crashed,    \* an exception escaped to the caller of the pipeline
    nops,       \* number of operations run so far
    url_in,     \* SpecUrl: the argument of get_url
    url_out,    \* SpecUrl: the value get_url returned
    n_photos,   \* SpecCost: len(self.urls)
    twin        \* SpecTwin: two labelers run side by side

vars == <<data_df, urls, labels, df, out_csv, words_csv, cost, calls, outcomes,
          passed, lastop, crashed, nops, url_in, url_out, n_photos, twin>>

pipeline_vars == <<data_df, urls, labels, df, out_csv, words_csv, calls,
                   outcomes, passed, lastop, crashed, nops>>

(***************************************************************************)
(* Bounds of the model.                                                    *)
(***************************************************************************)
MaxRows == 2
MaxOps == 5
MaxRunOps == 3
MaxUrlLen == 7
MaxPhotos == 2500

(***************************************************************************)
(* Program constants.                                                      *)
(***************************************************************************)
SuffixLen == 6
PhotosPerUnit == 1000
UnitPriceTenths == 15

(***************************************************************************)
(* Values.                                                                 *)
(***************************************************************************)
StrCell(s) == [type |-> "str", s |-> s, f |-> 0]
FloatCell(x) == [type |-> "float", s |-> "", f |-> x]
NaN == [type |-> "nan", s |-> "", f |-> 0]

Chars == {"x", "_", "g"}
Jpg == <<".", "j", "p", "g">>
Unknown == <<"u", "n", "k", "n", "o", "w", "n">>

RawStr(t) == [type |-> "str", val |-> t]
RawNaN == [type |-> "float", val |-> <<>>]

(***************************************************************************)
(* Python's s[:stop].                                                      *)
(***************************************************************************)
PySliceTo(s, stop) ==
    LET n == Len(s)
        e == IF stop < 0
             THEN (IF stop + n < 0 THEN 0 ELSE stop + n)
             ELSE (IF stop > n THEN n ELSE stop)
    IN SubSeq(s, 1, e)

get_url(url_sq) ==
    IF url_sq.type # "str"
    THEN Unknown  \* len() of a non-string raises, the except branch runs
    ELSE PySliceTo(url_sq.val, Len(url_sq.val) - SuffixLen) \o Jpg

(***************************************************************************)
(* ImageLabeler.  An outcome says what the outside world does for one      *)
(* photo: whether requests.get raises, and whether label_detection raises  *)
(* or which annotations it returns.                                        *)
(***************************************************************************)
Ann(d, sc) == [description |-> d, score |-> sc]

Responses ==
    { <<>>,
      <<Ann("cat", 9), Ann("dog", 5)>> }

ClassifyRaise == [raise |-> TRUE, annotations |-> <<>>]
ClassifyOk(r) == [raise |-> FALSE, annotations |-> r]

Outcomes ==
    { [fetch |-> "error", classify |-> c] :
          c \in {ClassifyRaise, ClassifyOk(<<>>)} }
    \cup
    { [fetch |-> "ok", classify |-> c] :
          c \in {ClassifyRaise} \cup {ClassifyOk(r) : r \in Responses} }

load_image(photo_url, oc) ==
    IF oc.fetch = "error"
    THEN [is_none |-> TRUE, content |-> <<>>]
    ELSE [is_none |-> FALSE, content |-> photo_url]

\* self.client.label_detection(image=image) of the Vision client library.
\* A None image has no content to label: the call raises or answers with
\* no annotations, depending on the library version.
label_detection(image, oc) ==
    [raised |-> oc.classify.raise,
     label_annotations |->
         IF image.is_none THEN <<>> ELSE oc.classify.annotations]

ErrorLabel == <<Ann("error", 0)>>

\* The result of one call: raised says an exception escaped to the caller.
\* Variant without the try/except around the classification call.
get_label_from_image_reraise(photo_url, oc) ==
    LET image == load_image(photo_url, oc)
        response == label_detection(image, oc)
    IN [raised |-> response.raised,
        labels |-> response.label_annotations,
        calls |-> << <<"fetch", photo_url>>, <<"classify", photo_url>> >>]

\* Variant that reports a failure as a placeholder label.
get_label_from_image_placeholder(photo_url, oc) ==
    LET image == load_image(photo_url, oc)
        response == label_detection(image, oc)
    IN [raised |-> FALSE,
        labels |-> IF response.raised \/ image.is_none
                   THEN ErrorLabel ELSE response.label_annotations,
        calls |-> << <<"fetch", photo_url>>, <<"classify", photo_url>> >>]

\* Variant that returns early, without classifying, when the image is None.
get_label_from_image_skip(photo_url, oc) ==
    LET image == load_image(photo_url, oc)
        response == label_detection(image, oc)
    IN IF image.is_none
       THEN [raised |-> FALSE, labels |-> <<>>,
             calls |-> << <<"fetch", photo_url>> >>]
       ELSE [raised |-> FALSE,
             labels |-> IF response.raised THEN <<>>
                        ELSE response.label_annotations,
             calls |-> << <<"fetch", photo_url>>, <<"classify", photo_url>> >>]

get_label_from_image(photo_url, oc) ==
    LET image == load_image(photo_url, oc)
        response == label_detection(image, oc)
    IN [raised |-> FALSE,
        labels |-> IF response.raised THEN <<>>
                   ELSE response.label_annotations,
        calls |-> << <<"fetch", photo_url>>, <<"classify", photo_url>> >>]

(***************************************************************************)
(* DfLabeler.get_labels_from_df                                            *)
(***************************************************************************)
\* Variant with / in place of //.
estimate_cost_true_division(n) == (n * UnitPriceTenths) \div PhotosPerUnit

estimate_cost(n) == (n \div PhotosPerUnit) * UnitPriceTenths

RECURSIVE label_loop(_, _, _, _, _)
label_loop(urls_, ocs, i, acc, log) ==
    IF i > Len(urls_)
    THEN [raised |-> FALSE, labels |-> acc, calls |-> log]
    ELSE LET r == get_label_from_image(urls_[i], ocs[i])
         IN IF r.raised
            THEN [raised |-> TRUE, labels |-> acc, calls |-> log \o r.calls]
            ELSE label_loop(urls_, ocs, i + 1, Append(acc, r.labels),
                            log \o r.calls)

get_labels_from_df(urls_, ocs) == label_loop(urls_, ocs, 1, <<>>, <<>>)

(***************************************************************************)
(* dicts                                                                   *)
(***************************************************************************)
DictKeys(d) == {d[i].k : i \in DOMAIN d}
DictGet(d, key) == (CHOOSE i \in DOMAIN d : d[i].k = key)
DictValues(d) == [i \in DOMAIN d |-> d[i].v]

RECURSIVE dict_update(_, _)
dict_update(d, e) ==
    IF e = <<>> THEN d
    ELSE LET p == Head(e)
             d1 == IF p.k \in DictKeys(d)
                   THEN [d EXCEPT ![DictGet(d, p.k)] = p]
                   ELSE Append(d, p)
         IN dict_update(d1, Tail(e))

(***************************************************************************)
(* DfLabeler.store_labels                                                  *)
(***************************************************************************)
\* Variant whose keys start at label_0, score_0.
flatten_off_by_one(photos) ==
    LET label_cols == [j \in 1..Len(photos) |->
                          [k |-> "label_" \o ToString(j - 1),
                           v |-> StrCell(photos[j].description)]]
        score_cols == [j \in 1..Len(photos) |->
                          [k |-> "score_" \o ToString(j - 1),
                           v |-> FloatCell(photos[j].score)]]
    IN dict_update(label_cols, score_cols)

\* one iteration of the loop: the dict appended for one photo
flatten(photos) ==
    LET label_list == [j \in 1..Len(photos) |-> photos[j].description]
        scores == [j \in 1..Len(photos) |-> photos[j].score]
        \* index j here is Python's i + 1
        label_cols == [j \in 1..Len(label_list) |->
                          [k |-> "label_" \o ToString(j),
                           v |-> StrCell(label_list[j])]]
        score_cols == [j \in 1..Len(scores) |->
                          [k |-> "score_" \o ToString(j),
                           v |-> FloatCell(scores[j])]]
    IN dict_update(label_cols, score_cols)

RECURSIVE store_loop(_, _)
store_loop(df_, labels_) ==
    IF labels_ = <<>> THEN df_
    ELSE store_loop(Append(df_, flatten(Head(labels_))), Tail(labels_))

\* Variant that starts from an empty list on every call.
store_labels_reset(df_, labels_) == store_loop(<<>>, labels_)

store_labels(df_, labels_) == store_loop(df_, labels_)

(***************************************************************************)
(* DfLabeler.update_data_df                                                *)
(***************************************************************************)
RECURSIVE AddColumns(_, _)
AddColumns(cols, keys) ==
    IF keys = <<>> THEN cols
    ELSE AddColumns(IF \E i \in DOMAIN cols : cols[i] = Head(keys)
                    THEN cols ELSE Append(cols, Head(keys)),
                    Tail(keys))

RECURSIVE ColumnsOf(_, _)
ColumnsOf(df_, cols) ==
    IF df_ = <<>> THEN cols
    ELSE ColumnsOf(Tail(df_),
                   AddColumns(cols, [i \in DOMAIN Head(df_) |-> Head(df_)[i].k]))

\* pd.DataFrame(df): one row per dict, one column per key, NaN where absent
DataFrame(df_) ==
    LET cols == ColumnsOf(df_, <<>>)
    IN [columns |-> cols,
        rows |-> [r \in DOMAIN df_ |->
                     [c \in DOMAIN cols |->
                         IF cols[c] \in DictKeys(df_[r])
                         THEN df_[r][DictGet(df_[r], cols[c])].v
                         ELSE NaN]]]

\* left.join(right): every row of left, in order, with right's row of the
\* same index, or NaN in every column of right
join(left, right) ==
    [columns |-> right.columns,
     rows |-> [r \in DOMAIN left |->
                  [rec |-> left[r],
                   cells |-> IF r \in DOMAIN right.rows
                             THEN right.rows[r]
                             ELSE [c \in DOMAIN right.columns |-> NaN]]]]

\* Variant with an inner join: rows without a partner are dropped.
RECURSIVE SelectRows(_, _, _)
SelectRows(left, right, r) ==
    IF r > Len(left) THEN <<>>
    ELSE (IF r \in DOMAIN right.rows
          THEN <<[rec |-> left[r], cells |-> right.rows[r]]>>
          ELSE <<>>) \o SelectRows(left, right, r + 1)

update_data_df_inner_join(data_df_, df_) ==
    LET new_df == DataFrame(df_)
    IN [columns |-> new_df.columns, rows |-> SelectRows(data_df_, new_df, 1)]

update_data_df(data_df_, df_) ==
    LET new_df == DataFrame(df_)
        a == join(data_df_, new_df)
    IN a

(***************************************************************************)
(* DfLabeler.get_label_counts                                              *)
(***************************************************************************)
RECURSIVE all_words_of(_)
all_words_of(df_) ==
    IF df_ = <<>> THEN <<>>
    ELSE LET vals == DictValues(Head(df_))
             words == SelectSeq(vals, LAMBDA elm : elm.type = "str")
         IN [j \in DOMAIN words |-> words[j].s] \o all_words_of(Tail(df_))

\* collections.Counter(words): word -> count, in order of first occurrence
RECURSIVE Counter(_, _)
Counter(words, acc) ==
    IF words = <<>> THEN acc
    ELSE LET w == Head(words)
         IN Counter(Tail(words),
                    IF \E i \in DOMAIN acc : acc[i].word = w
                    THEN [i \in DOMAIN acc |->
                             IF acc[i].word = w
                             THEN [acc[i] EXCEPT !.count = @ + 1]
                             ELSE acc[i]]
                    ELSE Append(acc, [word |-> w, count |-> 1]))

\* insert e after every entry whose count is >= e.count (stable, descending)
RECURSIVE InsertByCount(_, _)
InsertByCount(sorted, e) ==
    IF sorted = <<>> THEN <<e>>
    ELSE IF Head(sorted).count >= e.count
         THEN <<Head(sorted)>> \o InsertByCount(Tail(sorted), e)
         ELSE <<e>> \o sorted

\* Counter.most_common(): sorted(items, key=count, reverse=True)
RECURSIVE most_common(_, _)
most_common(items, sorted) ==
    IF items = <<>> THEN sorted
    ELSE most_common(Tail(items), InsertByCount(sorted, Head(items)))

\* Variant that keeps the Counter's own order (first occurrence).
get_label_counts_unsorted(df_) == Counter(all_words_of(df_), <<>>)

get_label_counts(df_) ==
    LET all_words == all_words_of(df_)
        new_vals == most_common(Counter(all_words, <<>>), <<>>)
        word_list == [j \in DOMAIN new_vals |->
                         [word |-> new_vals[j].word, count |-> new_vals[j].count]]
    IN word_list

(***************************************************************************)
(* The pipeline: one DfLabeler, its methods called in any order.           *)
(***************************************************************************)
ThumbUrl(i) == <<ToString(i), "_", "s", ".", "j", "p", "g">>

Table(n) == [i \in 1..n |-> [id |-> i, url_sq |-> RawStr(ThumbUrl(i))]]

\* DfLabeler.__init__: self.urls
init_urls(data_df_, url_sq) ==
    IF url_sq
    THEN [i \in DOMAIN data_df_ |-> get_url(data_df_[i].url_sq)]
    ELSE [i \in DOMAIN data_df_ |-> data_df_[i].url_sq.val]

NoTable == [written |-> FALSE, columns |-> <<>>, rows |-> <<>>]
NoWords == [written |-> FALSE, rows |-> <<>>]
NoUrl == [returned |-> FALSE, val |-> <<>>]
NoTwin == [pc |-> "off"]

\* a list of labels that did not come from this labeler's last run
ForeignLabels == << <<Ann("dog", 5)>> >>

PipelineIdle ==
    /\ data_df = <<>> /\ urls = <<>> /\ labels = <<>> /\ df = <<>>
    /\ out_csv = NoTable /\ words_csv = NoWords
    /\ calls = <<>> /\ outcomes = <<>> /\ passed = <<>>
    /\ crashed = FALSE /\ nops = 0

Init ==
    /\ \E n \in 0..MaxRows :
          /\ data_df = Table(n)
          \* lab = DfLabeler(data_csv, auth_file, url_col='url_sq', url_sq=True)
          /\ urls = init_urls(Table(n), TRUE)
    /\ df = <<>>
    /\ labels = <<>>
    /\ out_csv = NoTable
    /\ words_csv = NoWords
    /\ cost = 0
    /\ calls = <<>>
    /\ outcomes = <<>>
    /\ passed = <<>>
    /\ lastop = "init"
    /\ crashed = FALSE
    /\ nops = 0
    /\ url_in = RawNaN /\ url_out = NoUrl /\ n_photos = 0 /\ twin = NoTwin

CanRun == ~crashed /\ nops < MaxOps

GetLabelsFromDf ==
    /\ CanRun
    /\ \E ocs \in [1..Len(urls) -> Outcomes] :
          LET r == get_labels_from_df(urls, ocs)
          IN /\ cost' = estimate_cost(Len(urls))
             /\ crashed' = r.raised
             /\ labels' = IF r.raised THEN labels ELSE r.labels
    /\ lastop' = "get_labels_from_df"
    /\ nops' = nops + 1
    /\ UNCHANGED <<data_df, urls, df, out_csv, words_csv, passed, calls,
                   outcomes, url_in, url_out, n_photos, twin>>

StoreLabels ==
    /\ CanRun
    /\ \E labels_ \in {labels, ForeignLabels} :
          /\ df' = store_labels(df, labels_)
          /\ passed' = Append(passed, labels_)
    /\ lastop' = "store_labels"
    /\ nops' = nops + 1
    /\ UNCHANGED <<data_df, urls, labels, out_csv, words_csv, cost, calls,
                   outcomes, crashed, url_in, url_out, n_photos, twin>>

UpdateDataDf ==
    /\ CanRun
    /\ LET a == update_data_df(data_df, df)
       IN out_csv' = [written |-> TRUE, columns |-> a.columns, rows |-> a.rows]
    /\ lastop' = "update_data_df"
    /\ nops' = nops + 1
    /\ UNCHANGED <<data_df, urls, labels, df, words_csv, cost, calls, outcomes,
                   passed, crashed, url_in, url_out, n_photos, twin>>

GetLabelCounts ==
    /\ CanRun
    /\ words_csv' = [written |-> TRUE, rows |-> get_label_counts(df)]
    /\ lastop' = "get_label_counts"
    /\ nops' = nops + 1
    /\ UNCHANGED <<data_df, urls, labels, df, out_csv, cost, calls, outcomes,
                   passed, crashed, url_in, url_out, n_photos, twin>>

Next == GetLabelsFromDf \/ StoreLabels \/ UpdateDataDf \/ GetLabelCounts

Spec == Init /\ [][Next]_vars

(***************************************************************************)
(* One DfLabeler with the traffic of its last labeling run recorded: which *)
(* external calls were made, in which order, and how each of them ended.   *)
(***************************************************************************)
CanRunLogged == ~crashed /\ nops < MaxRunOps

RunGetLabelsFromDf ==
    /\ CanRunLogged
    /\ \E ocs \in [1..Len(urls) -> Outcomes] :
          LET r == get_labels_from_df(urls, ocs)
          IN /\ cost' = estimate_cost(Len(urls))
             /\ calls' = r.calls
             /\ outcomes' = ocs
             /\ crashed' = r.raised
             /\ labels' = IF r.raised THEN labels ELSE r.labels
    /\ lastop' = "get_labels_from_df"
    /\ nops' = nops + 1
    /\ UNCHANGED <<data_df, urls, df, out_csv, words_csv, passed,
                   url_in, url_out, n_photos, twin>>

\* df = lab.store_labels(labels), as the script calls it
RunStoreLabels ==
    /\ CanRunLogged
    /\ df' = store_labels(df, labels)
    /\ passed' = Append(passed, labels)
    /\ lastop' = "store_labels"
    /\ nops' = nops + 1
    /\ UNCHANGED <<data_df, urls, labels, out_csv, words_csv, cost, calls,
                   outcomes, crashed, url_in, url_out, n_photos, twin>>

NextRun == RunGetLabelsFromDf \/ RunStoreLabels

SpecRun == Init /\ [][NextRun]_vars

(***************************************************************************)
(* get_url applied to one value of the url column.                         *)
(***************************************************************************)
Strings(maxlen) == UNION {[1..k -> Chars] : k \in 0..maxlen}

UrlInputs == {RawStr(t) : t \in Strings(MaxUrlLen)} \cup {RawNaN}

InitUrl ==
    /\ url_in \in UrlInputs
    /\ url_out = NoUrl
    /\ PipelineIdle
    /\ cost = 0 /\ lastop = "init" /\ n_photos = 0 /\ twin = NoTwin

GetUrl ==
    /\ ~url_out.returned
    /\ url_out' = [returned |-> TRUE, val |-> get_url(url_in)]
    /\ UNCHANGED <<pipeline_vars, cost, url_in, n_photos, twin>>

NextUrl == GetUrl

SpecUrl == InitUrl /\ [][NextUrl]_vars

(***************************************************************************)
(* The cost message of get_labels_from_df for a table of n_photos rows.    *)
(***************************************************************************)
InitCost ==
    /\ n_photos \in 0..MaxPhotos
    /\ cost = 0
    /\ lastop = "init"
    /\ data_df = <<>> /\ urls = <<>> /\ labels = <<>> /\ df = <<>>
    /\ out_csv = NoTable /\ words_csv = NoWords
    /\ calls = <<>> /\ outcomes = <<>> /\ passed = <<>>
    /\ crashed = FALSE /\ nops = 0
    /\ url_in = RawNaN /\ url_out = NoUrl /\ twin = NoTwin

LogCost ==
    /\ lastop = "init"
    /\ cost' = estimate_cost(n_photos)
    /\ lastop' = "get_labels_from_df"
    /\ UNCHANGED <<data_df, urls, labels, df, out_csv, words_csv, calls,
                   outcomes, passed, crashed, nops, url_in, url_out, n_photos,
                   twin>>

NextCost == LogCost

SpecCost == InitCost /\ [][NextCost]_vars

(***************************************************************************)
(* Two labelers over the same table, run side by side through the script   *)
(* (get_labels_from_df, store_labels, update_data_df, get_label_counts).   *)
(* Their runs differ in one row only: in the first run that row fails (the *)
(* fetch or the classification raises), in the second the service answers  *)
(* with no labels for it.                                                  *)
(***************************************************************************)
Failed(oc) == oc.fetch = "error" \/ oc.classify.raise

ZeroLabels == [fetch |-> "ok", classify |-> ClassifyOk(<<>>)]

NewLabeler ==
    [labels |-> <<>>, df |-> <<>>, out_csv |-> NoTable, words_csv |-> NoWords,
     crashed |-> FALSE]

InitTwin ==
    /\ \E n \in 1..MaxRows :
         \E row \in 1..n, o1 \in [1..n -> Outcomes] :
            /\ Failed(o1[row])
            /\ twin = [pc |-> "constructed",
                       data_df |-> Table(n),
                       urls |-> init_urls(Table(n), TRUE),
                       row |-> row,
                       o1 |-> o1,
                       o2 |-> [o1 EXCEPT ![row] = ZeroLabels],
                       a |-> NewLabeler,
                       b |-> NewLabeler]
    /\ PipelineIdle
    /\ cost = 0 /\ lastop = "init"
    /\ url_in = RawNaN /\ url_out = NoUrl /\ n_photos = 0

labeler_get_labels(lab, urls_, ocs) ==
    LET r == get_labels_from_df(urls_, ocs)
    IN [lab EXCEPT !.labels = IF r.raised THEN lab.labels ELSE r.labels,
                   !.crashed = r.raised]

labeler_store_labels(lab) ==
    [lab EXCEPT !.df = store_labels(lab.df, lab.labels)]

labeler_update_data_df(lab, data_df_) ==
    LET a == update_data_df(data_df_, lab.df)
    IN [lab EXCEPT !.out_csv =
            [written |-> TRUE, columns |-> a.columns, rows |-> a.rows]]

labeler_get_label_counts(lab) ==
    [lab EXCEPT !.words_csv =
        [written |-> TRUE, rows |-> get_label_counts(lab.df)]]

TwinUnchanged == UNCHANGED <<pipeline_vars, cost, url_in, url_out, n_photos>>

TwinGetLabelsFromDf ==
    /\ twin.pc = "constructed"
    /\ twin' = [twin EXCEPT
                   !.pc = "labeled",
                   !.a = labeler_get_labels(twin.a, twin.urls, twin.o1),
                   !.b = labeler_get_labels(twin.b, twin.urls, twin.o2)]
    /\ TwinUnchanged

TwinStoreLabels ==
    /\ twin.pc = "labeled"
    /\ ~twin.a.crashed /\ ~twin.b.crashed
    /\ twin' = [twin EXCEPT !.pc = "stored",
                            !.a = labeler_store_labels(twin.a),
                            !.b = labeler_store_labels(twin.b)]
    /\ TwinUnchanged

TwinUpdateDataDf ==
    /\ twin.pc = "stored"
    /\ twin' = [twin EXCEPT
                   !.pc = "written",
                   !.a = labeler_update_data_df(twin.a, twin.data_df),
                   !.b = labeler_update_data_df(twin.b, twin.data_df)]
    /\ TwinUnchanged

TwinGetLabelCounts ==
    /\ twin.pc = "written"
    /\ twin' = [twin EXCEPT !.pc = "counted",
                            !.a = labeler_get_label_counts(twin.a),
                            !.b = labeler_get_label_counts(twin.b)]
    /\ TwinUnchanged

NextTwin ==
    \/ TwinGetLabelsFromDf
    \/ TwinStoreLabels
    \/ TwinUpdateDataDf
    \/ TwinGetLabelCounts

SpecTwin == InitTwin /\ [][NextTwin]_vars

(***************************************************************************)
(* Properties.                                                             *)
(***************************************************************************)
Labeled == lastop = "get_labels_from_df"
Stored == lastop = "store_labels"
Written == lastop = "update_data_df"
Counted == lastop = "get_label_counts"

\* the [k, v] pairs of a dict, and the pairs an output row carries (the
\* cells of the label and score columns that are not NaN)
Pairs(d) == {d[i] : i \in DOMAIN d}
Carried(table, r) ==
    {[k |-> table.columns[c], v |-> table.rows[r].cells[c]] :
        c \in {c \in DOMAIN table.columns : table.rows[r].cells[c] # NaN}}

\* what a Label Result looks like once flattened: label_i and score_i for
\* every annotation i, and nothing else
FlatPairs(photos) ==
    {[k |-> "label_" \o ToString(i), v |-> StrCell(photos[i].description)] :
        i \in DOMAIN photos}
    \cup
    {[k |-> "score_" \o ToString(i), v |-> FloatCell(photos[i].score)] :
        i \in DOMAIN photos}

RECURSIVE FlatConcat(_)
FlatConcat(lists) ==
    IF lists = <<>> THEN <<>>
    ELSE store_labels(<<>>, Head(lists)) \o FlatConcat(Tail(lists))

RECURSIVE SumCounts(_)
SumCounts(rows) ==
    IF rows = <<>> THEN 0 ELSE Head(rows).count + SumCounts(Tail(rows))

\* occurrences of the string w among the values of the dicts of df_
Occurrences(df_, w) ==
    Cardinality({<<r, i>> \in UNION {{r} \X DOMAIN df_[r] : r \in DOMAIN df_} :
                    df_[r][i].v = StrCell(w)})

StringsIn(df_) ==
    {df_[r][i].v.s : <<r, i>> \in
        {<<r, i>> \in UNION {{r} \X DOMAIN df_[r] : r \in DOMAIN df_} :
            df_[r][i].v.type = "str"}}

CountOf(rows, w) ==
    IF \E j \in DOMAIN rows : rows[j].word = w
    THEN rows[CHOOSE j \in DOMAIN rows : rows[j].word = w].count
    ELSE 0

\* C1: get_url returns the input with its last 6 characters replaced by
\* ".jpg" when the input has at least 6 characters, and "unknown" when it is
\* shorter than 6 characters.
C1_GetUrlContract ==
    (url_out.returned /\ url_in.type = "str") =>
        IF Len(url_in.val) >= 6
        THEN url_out.val = SubSeq(url_in.val, 1, Len(url_in.val) - 6) \o Jpg
        ELSE url_out.val = Unknown

\* C2: get_label_from_image never lets an exception reach its caller:
\* whatever the fetch and the classification call do, every photo of a run
\* gets a list, and the list is empty whenever the classification call raised.
C2_NeverPropagates ==
    /\ ~crashed
    /\ Labeled =>
          /\ Len(labels) = Len(urls)
          /\ \A i \in DOMAIN outcomes :
                /\ labels[i] \in Seq({Ann("cat", 9), Ann("dog", 5)})
                /\ outcomes[i].classify.raise => labels[i] = <<>>

C2_Witness ==
    /\ Labeled
    /\ \E i \in DOMAIN outcomes :
          outcomes[i].fetch = "ok" /\ outcomes[i].classify.raise
    /\ \E i \in DOMAIN outcomes :
          outcomes[i].fetch = "error" /\ outcomes[i].classify.raise

\* C3 as stated: once the Label Results have been stored (store_labels was
\* only ever given this labeler's own results, last of all the current
\* ones), the table update_data_df writes has the input's rows, in order,
\* and row i carries the flattened Label Result of record i, whatever
\* get_labels_from_df and store_labels calls came before.
C3_RowCarriesItsLabelResult ==
    (/\ Written
     /\ passed # <<>>
     /\ \A k \in DOMAIN passed : passed[k] # ForeignLabels
     /\ passed[Len(passed)] = labels
     /\ Len(labels) = Len(data_df))
    => /\ Len(out_csv.rows) = Len(data_df)
       /\ \A i \in DOMAIN data_df :
             /\ out_csv.rows[i].rec = data_df[i]
             /\ Carried(out_csv, i) = FlatPairs(labels[i])

\* C3 amended: the written table always has the input's rows, in order; row
\* i carries the i-th entry of the accumulated flattened list (nothing when
\* the list has no i-th entry), which is the flattened Label Result of
\* record i when the first list ever passed to store_labels was the current
\* Label Result list.
C3_RowsPreservedFirstStoredCarried ==
    Written =>
       /\ Len(out_csv.rows) = Len(data_df)
       /\ \A i \in DOMAIN data_df :
             /\ out_csv.rows[i].rec = data_df[i]
             /\ Carried(out_csv, i) =
                   IF i \in DOMAIN df THEN Pairs(df[i]) ELSE {}
             /\ (/\ passed # <<>>
                 /\ passed[1] = labels
                 /\ Len(labels) = Len(data_df))
                => Carried(out_csv, i) = FlatPairs(labels[i])

C3_Witness ==
    /\ Written
    /\ Len(data_df) = 2
    /\ Len(labels) = 2
    /\ Len(passed) = 2
    /\ passed[1] = labels
    /\ labels[1] = <<>>
    /\ labels[2] # <<>>
    /\ Carried(out_csv, 2) = FlatPairs(labels[2])

\* C4: the word-count table holds each distinct label string exactly once,
\* with the number of times it occurs in the flattened rows (so the counts
\* sum to the number of label strings, scores excluded), in non-increasing
\* order of count.
C4_WordCounts ==
    Counted =>
       LET w == words_csv.rows
       IN /\ \A i, j \in DOMAIN w : w[i].word = w[j].word => i = j
          /\ {w[i].word : i \in DOMAIN w} = StringsIn(df)
          /\ \A i \in DOMAIN w : w[i].count = Occurrences(df, w[i].word)
          /\ SumCounts(w) =
                Cardinality({<<r, i>> \in
                    UNION {{r} \X DOMAIN df[r] : r \in DOMAIN df} :
                       df[r][i].v.type = "str"})
          /\ \A i, j \in DOMAIN w : i < j => w[i].count >= w[j].count
          \* when the written output table carries exactly the flattened
          \* rows, the counts sum to the label strings of that table
          /\ (/\ out_csv.written
              /\ Len(df) = Len(data_df)
              /\ \A r \in DOMAIN df : Carried(out_csv, r) = Pairs(df[r]))
             => SumCounts(w) =
                   Cardinality({<<r, c>> \in
                       (DOMAIN out_csv.rows) \X (DOMAIN out_csv.columns) :
                          out_csv.rows[r].cells[c].type = "str"})

C4_Witness ==
    /\ Counted
    /\ \E r1, r2 \in DOMAIN df :
          /\ r1 < r2
          /\ Pairs(df[r1]) = FlatPairs(<<Ann("cat", 9), Ann("dog", 5)>>)
          /\ Pairs(df[r2]) = FlatPairs(<<Ann("dog", 5)>>)
    /\ words_csv.rows = <<[word |-> "dog", count |-> 2],
                          [word |-> "cat", count |-> 1]>>

\* C5: store_labels turns a Label Result of length n into a mapping whose
\* keys are exactly label_1..label_n and score_1..score_n, label_i being the
\* description and score_i the confidence of the i-th annotation.
C5_FlattenedKeys ==
    Stored =>
       LET L == passed[Len(passed)]
       IN /\ Len(df) >= Len(L)
          /\ \A i \in DOMAIN L :
                LET row == df[Len(df) - Len(L) + i]
                    n == Len(L[i])
                IN /\ Len(row) = 2 * n
                   /\ DictKeys(row) =
                        {"label_" \o ToString(j) : j \in 1..n}
                        \cup {"score_" \o ToString(j) : j \in 1..n}
                   /\ \A j \in 1..n :
                        /\ [k |-> "label_" \o ToString(j),
                            v |-> StrCell(L[i][j].description)] \in Pairs(row)
                        /\ [k |-> "score_" \o ToString(j),
                            v |-> FloatCell(L[i][j].score)] \in Pairs(row)

C5_Witness ==
    /\ Stored
    /\ Len(labels) = 2
    /\ passed[Len(passed)] = labels
    /\ Len(labels[1]) = 2
    /\ labels[2] = <<>>
    /\ df[Len(df)] = <<>>
    /\ DictKeys(df[Len(df) - 1]) = {"label_1", "label_2", "score_1", "score_2"}

\* C6: when the fetch of a row's URL fails, the row's Label Result is the
\* empty list and the row flattened by store_labels has no label_i or
\* score_i key.
C6_FetchFailureGivesNoLabels ==
    \A i \in DOMAIN outcomes :
       outcomes[i].fetch = "error" =>
          /\ Labeled => labels[i] = <<>>
          /\ Stored => /\ labels[i] = <<>>
                       /\ Len(df) >= Len(labels)
                       /\ DictKeys(df[Len(df) - Len(labels) + i]) = {}

C6_Witness ==
    /\ Stored
    /\ Len(labels) = 2
    /\ outcomes[1].fetch = "error"
    /\ labels[2] # <<>>
    /\ df = << <<>>, flatten(labels[2]) >>

\* C7: a row that failed cannot be told from a row the service answered
\* with zero labels: the two runs have the same Label Results, the same
\* output table and the same word-count table.
C7_FailureLooksLikeZeroLabels ==
    twin.pc # "off" =>
       /\ ~twin.a.crashed /\ ~twin.b.crashed
       /\ twin.a.labels = twin.b.labels
       /\ twin.a.df = twin.b.df
       /\ twin.a.out_csv = twin.b.out_csv
       /\ twin.a.words_csv = twin.b.words_csv

C7_Witness ==
    /\ twin.pc = "counted"
    /\ Len(twin.urls) = 2
    /\ twin.o1[twin.row].fetch = "ok"
    /\ twin.o1[twin.row].classify.raise
    /\ ~Failed(twin.o2[twin.row])
    /\ twin.a.out_csv.written
    /\ twin.a.words_csv.rows # <<>>

\* C8: in one run the external calls happen in row order, without retry:
\* for each row one fetch of its URL, then one classification call for it
\* (also when the fetch failed), before the fetch of the next row.
C8_CallsInRowOrder ==
    Labeled =>
       /\ Len(calls) = 2 * Len(urls)
       /\ \A i \in DOMAIN urls :
             /\ calls[2 * i - 1] = <<"fetch", urls[i]>>
             /\ calls[2 * i] = <<"classify", urls[i]>>

C8_Witness ==
    /\ Labeled
    /\ Len(urls) = 2
    /\ outcomes[1].fetch = "error"
    /\ outcomes[2].fetch = "ok"
    /\ Len(calls) = 4

\* C9 as stated: the reported cost equals the row count times the per-row
\* rate of 1.5 per 1000 rows, so it is proportional to the row count.
C9_CostProportional ==
    Labeled => cost * PhotosPerUnit = n_photos * UnitPriceTenths

\* C9 amended: the reported cost is 1.5 times the number of complete
\* thousands of rows, so it is 0 below 1000 rows and a step function of the
\* row count.
C9_CostPerCompleteThousand ==
    Labeled =>
       \E q \in 0..n_photos :
          /\ q * 1000 <= n_photos
          /\ n_photos < (q + 1) * 1000
          /\ cost = q * 15

C9_Witness ==
    /\ Labeled
    /\ n_photos = 2499
    /\ cost = 30

\* C10: store_labels only appends: the accumulated list is the
\* concatenation, in call order, of the flattened rows of every list passed
\* so far, so a second call with the same labels doubles every count
\* get_label_counts reports, while get_labels_from_df replaces the stored
\* labels.
C10_StoreAppendsGetReplaces ==
    /\ df = FlatConcat(passed)
    /\ (Counted /\ Len(passed) = 2 /\ passed[1] = passed[2]) =>
          \A w \in {"cat", "dog"} :
             CountOf(words_csv.rows, w) =
                2 * CountOf(get_label_counts(FlatConcat(<<passed[1]>>)), w)
    /\ Labeled => Len(labels) = Len(urls)

C10_Witness ==
    /\ Counted
    /\ Len(passed) = 2
    /\ passed[1] = passed[2]
    /\ passed[1] = labels
    /\ Len(labels) = 2
    /\ CountOf(words_csv.rows, "dog") = 4

====
